---- MODULE Spec2Model ----
(***************************************************************************)
(* Insta-Reposter: the two drivers (bot.py main / Video_bot.py main), the  *)
(* job pipelines (process_single_link / process_single_row) and the        *)
(* publish protocol (publish_to_instagram) as one state machine.           *)
(* `variant` says which of the two programs is running.                    *)
(***************************************************************************)
EXTENDS Integers, Sequences, FiniteSets, TLC

\* ------------------------------------------------------------------ bounds
\* Number of times the process may be killed and restarted (SpecCrash).
MaxCrashes == 1

\* ------------------------------------------------------- program constants
\* max_retries of the status poll loop.
max_retries == 30
\* Graph API limit applied to albums in process_single_link.
AlbumLimit == 10

Variants == {"bot", "video"}

\* ------------------------------------------------------------------- links
\* A link is kept as the parts the code looks at: host, a directory segment,
\* the last path segment's stem and its extension. NoLink is the empty cell.
NoLink == [host |-> "", dir |-> "", name |-> "", ext |-> ""]
ReelLink == [host |-> "instagram.com", dir |-> "/reel", name |-> "AAA", ext |-> ""]
PostLink == [host |-> "instagram.com", dir |-> "/p", name |-> "BBB", ext |-> ""]
CdnLink == [host |-> "cdn.example", dir |-> "/files", name |-> "clip", ext |-> ".mp4"]
MovLink == [host |-> "media.example", dir |-> "/uploads", name |-> "talk", ext |-> ".mov"]
\* Another host serving a file whose last path segment is also clip.mp4.
MirrorLink == [host |-> "mirror.example", dir |-> "/v2", name |-> "clip", ext |-> ".mp4"]

video_extensions == {".mp4", ".mov", ".avi", ".mkv", ".webm", ".flv"}

is_direct_url_mp4_only(l) ==
    l.ext = ".mp4" /\ l.host \notin {"instagram.com", "instagr.am"}

\* Video_bot.py download_video: the direct-URL test.
is_direct_url(l) ==
    /\ \/ l.ext \in video_extensions
       \/ l.dir = "/video"
       \/ l.dir = "/uploads"
    /\ l.host \notin {"instagram.com", "instagr.am"}

\* ------------------------------------------------------------------- paths
\* A local path: who named it, the stem, an album index (0: none), whether
\* it carries the _reencoded suffix, and the extension.
NoPath == [pre |-> "", name |-> "", idx |-> 0, re |-> FALSE, ext |-> ""]
\* str(None): what bot.py download_media returns as a path when nothing was written.
NonePath == [pre |-> "None", name |-> "", idx |-> 0, re |-> FALSE, ext |-> ""]
MkPath(pre, name, idx, ext) == [pre |-> pre, name |-> name, idx |-> idx, re |-> FALSE, ext |-> ext]

\* input_path.replace('.mp4', '_reencoded.mp4')
output_path(p) == IF p.ext = ".mp4" THEN [p EXCEPT !.re = TRUE] ELSE p

\* -------------------------------------------------------------------- urls
NoUrl == [k |-> "none", link |-> NoLink, path |-> NoPath]
OrigUrl(l) == [k |-> "orig", link |-> l, path |-> NoPath]
\* The direct-download URL tmpfiles.org gives for an uploaded file.
TmpUrl(p) == [k |-> "tmpfiles", link |-> NoLink, path |-> p]
\* The page URL in the upload response, and url.replace('tmpfiles.org/',
\* 'tmpfiles.org/dl/') that turns it into the direct-download URL.
PageUrl(p) == [k |-> "tmpfiles_page", link |-> NoLink, path |-> p]
direct_url(u) == IF u.k = "tmpfiles_page" THEN [u EXCEPT !.k = "tmpfiles"] ELSE u

\* ------------------------------------------------------------------ sheet
\* A row keeps its number of cells and the cells the drivers read:
\* A (index 0), B (1), E (4) and F (5). A cell past the row's end reads "".
Strip(s) == CASE s = " " -> ""
              [] s = "Yes " -> "Yes"
              [] OTHER -> s
Lower(s) == CASE s = "Yes" -> "yes"
              [] s = "YES" -> "yes"
              [] s = "No" -> "no"
              [] s = "Done" -> "done"
              [] OTHER -> s

MkRow(n, a, b, e, f) == [len |-> n, A |-> a, B |-> b, E |-> e, F |-> f]
HeaderRow == MkRow(6, NoLink, "srt", "runever", "status")

\* row[k] if len(row) > k else ""
CellE(row) == IF row.len > 4 THEN row.E ELSE ""
CellF(row) == IF row.len > 5 THEN row.F ELSE ""
CellB(row) == IF row.len > 1 THEN row.B ELSE ""

\* The column each driver writes the outcome to (1-indexed, as update_cell takes it).
StatusCol(v) == IF v = "bot" THEN 5 ELSE 6
\* The status cell of a row as the sheet holds it.
StatusCell(v, row) == IF v = "bot" THEN CellE(row) ELSE CellF(row)

\* sheet.update_cell(r, col, value) on one row.
update_cell(row, col, value) ==
    IF col = 5
    THEN [row EXCEPT !.E = value, !.len = IF row.len < 5 THEN 5 ELSE row.len]
    ELSE [row EXCEPT !.F = value, !.len = IF row.len < 6 THEN 6 ELSE row.len]

\* bot.py main with a test on the status cell that lets a row marked "No" through.
bot_row_decision_retry_failed(i, row) ==
    IF i = 0 THEN "skip"
    ELSE IF row.len < 5 THEN "skip"
    ELSE IF row.A # NoLink /\ row.E \in {"", "No"} THEN "run"
    ELSE "skip"

\* bot.py main: the three tests in front of process_single_link.
\* "skip" or "run".
bot_row_decision(i, row) ==
    IF i = 0 THEN "skip"
    ELSE IF row.len < 5 THEN "skip"
    ELSE IF row.A # NoLink /\ row.E = "" THEN "run"
    ELSE "skip"

\* Video_bot.py main: the SRT link of a row (column E, else column B).
srt_link_of(row) == IF Strip(CellE(row)) = "" THEN Strip(CellB(row)) ELSE Strip(CellE(row))

\* Video_bot.py main without the test on the status cell.
video_row_decision_no_status_test(i, row) ==
    IF i = 0 THEN "skip"
    ELSE IF row.len < 2 THEN "skip"
    ELSE IF row.A = NoLink THEN "skip"
    ELSE IF srt_link_of(row) = "" THEN "skip"
    ELSE "run"

\* Video_bot.py main: the tests in front of process_single_row.
video_row_decision(i, row) ==
    IF i = 0 THEN "skip"
    ELSE IF row.len < 2 THEN "skip"
    ELSE IF Strip(CellF(row)) # "" /\ Lower(Strip(CellF(row))) = "yes" THEN "skip"
    ELSE IF row.A = NoLink THEN "skip"
    ELSE IF srt_link_of(row) = "" THEN "skip"
    ELSE "run"

\* The tests that end a turn of the driver's loop with "continue", on row
\* number r of the sheet (1: the header).
skip_tests(v, r, row) ==
    \/ r = 1
    \/ /\ v = "bot"
       /\ (row.len < 5 \/ row.A = NoLink \/ row.E # "")
    \/ /\ v = "video"
       /\ \/ row.len < 2
          \/ Lower(Strip(CellF(row))) = "yes"
          \/ row.A = NoLink
          \/ srt_link_of(row) = ""

\* A driver that tests the status cell alone.
row_decision_status_only(v, i, row) ==
    IF i = 0 THEN "skip"
    ELSE IF StatusCell(v, row) = "" THEN "run"
    ELSE "skip"

row_decision(v, i, row) ==
    IF v = "bot" THEN bot_row_decision(i, row) ELSE video_row_decision(i, row)

\* The sheets the driver may find when it starts: the header row and two data
\* rows each. Pending rows, rows marked "Yes", "No" or otherwise, a blank
\* status, rows too short to hold a status, rows with no link or no SRT link.
BotSheets ==
    {<<HeaderRow, MkRow(6, ReelLink, "", "", ""), MkRow(6, PostLink, "", "", "")>>,
     <<HeaderRow, MkRow(6, ReelLink, "", "Yes", ""), MkRow(6, PostLink, "", "", "")>>,
     <<HeaderRow, MkRow(6, ReelLink, "", "", ""), MkRow(6, PostLink, "", "No", "")>>,
     <<HeaderRow, MkRow(6, ReelLink, "", " ", ""), MkRow(4, PostLink, "", "", "")>>,
     <<HeaderRow, MkRow(6, NoLink, "", "", ""), MkRow(5, PostLink, "", "Yes", "")>>}
VideoSheets ==
    {<<HeaderRow, MkRow(6, CdnLink, "srt", "", ""), MkRow(6, ReelLink, "srt", "", "")>>,
     <<HeaderRow, MkRow(6, CdnLink, "srt", "", "Yes"), MkRow(6, ReelLink, "srt", "", "No")>>,
     <<HeaderRow, MkRow(6, MovLink, "", "srt", "Done"), MkRow(2, CdnLink, "srt", "", "")>>,
     <<HeaderRow, MkRow(1, CdnLink, "", "", ""), MkRow(6, NoLink, "srt", "", "")>>,
     <<HeaderRow, MkRow(6, ReelLink, "", "", ""), MkRow(6, CdnLink, "srt", "", "Yes ")>>}
Sheets(v) == IF v = "bot" THEN BotSheets ELSE VideoSheets

\* The sheets of the runs in which the process may be killed: one pending
\* job, alone or behind a row that is passed over.
CrashSheets(v) ==
    IF v = "bot"
    THEN {<<HeaderRow, MkRow(6, ReelLink, "", "No", ""), MkRow(6, PostLink, "", "", "")>>}
    ELSE {<<HeaderRow, MkRow(6, CdnLink, "srt", "", "")>>,
          <<HeaderRow, MkRow(6, CdnLink, "srt", "", "Yes"), MkRow(6, ReelLink, "srt", "", "")>>}

\* ------------------------------------------------------- metadata / fetch
\* What the remote side does during one fetch: whether media_pk_from_url
\* and each metadata call return or raise, the media type reported, the
\* library download, the raw request of the byte fallback, and the album.
MediaTypes == {1, 2, 8, 0}
\* The albums the remote side serves, as the types of their items: an empty
\* one, a single image, a single video, and a mixed pair.
AlbumShapes == {<<>>, <<"IMAGE">>, <<"VIDEO">>, <<"IMAGE", "VIDEO">>}
MetaEnvs ==
    [pk : {"ok", "exc"}, v1 : {"ok", "exc"}, gql : {"ok", "none", "exc"},
     a1 : {"ok", "none", "exc"}, raw : {"ok", "noitems", "exc"},
     user : {"ann"}, raw_user : {"ann", "bob"}]
\* An album one item longer than the Graph API limit.
LongAlbums == {[k \in 1..(AlbumLimit + 1) |-> "IMAGE"]}
ByteEnvs(albums) ==
    [mtype : MediaTypes, lib : {"ok", "exc"},
     rawdl : {"ok", "noitems", "nourl", "stream_exc", "exc"}, types : albums]

\* The metadata chain of download_media / download_video: the stage whose
\* answer is used ("none": all four failed).
media_info_stage(e) ==
    IF e.v1 = "ok" THEN "v1"
    ELSE IF e.gql = "ok" THEN "gql"
    ELSE IF e.a1 = "ok" THEN "a1"
    ELSE IF e.raw = "ok" THEN "raw"
    ELSE "none"

\* The metadata calls in the order the chain lists them.
StageOrder == <<"v1", "gql", "a1", "raw">>
\* One metadata call: whether it yielded metadata and the user.username the
\* metadata carries; the raw request reads it from the payload's first item.
NoUser == ""
Try(s, got, u) == [stage |-> s, got |-> got, user |-> IF got THEN u ELSE NoUser]
TryAll(e) ==
    <<Try("v1", e.v1 = "ok", e.user), Try("gql", e.gql = "ok", e.user),
      Try("a1", e.a1 = "ok", e.user), Try("raw", e.raw = "ok", e.raw_user)>>

media_info_tries_all(e) == TryAll(e)

\* The metadata calls one run of the chain makes, each with whether it yielded
\* metadata: the fallbacks sit in the except branch of media_info, the last
\* two under "if not media_info".
media_info_tries(e) ==
    IF e.v1 = "ok" THEN SubSeq(TryAll(e), 1, 1)
    ELSE IF e.gql = "ok" THEN SubSeq(TryAll(e), 1, 2)
    ELSE IF e.a1 = "ok" THEN SubSeq(TryAll(e), 1, 3)
    ELSE TryAll(e)

media_username_structured(e) == e.user

\* username = media_info.user.username, of the metadata the chain ended with.
media_username(e) == media_info_tries(e)[Len(media_info_tries(e))].user

\* Results of bot.py download_media: ret is "triple" (a 3-tuple with data),
\* "fail" (the tuple (None, None, None)) or "none" (the function fell off its
\* end and returned None); written are the files it left on disk.
DlFail(w) == [ret |-> "fail", data |-> <<>>, type |-> "", written |-> w]
DlNone == [ret |-> "none", data |-> <<>>, type |-> "", written |-> {}]
DlOk(items, t) ==
    [ret |-> "triple", data |-> items, type |-> t,
     written |-> {items[k].p : k \in 1..Len(items)} \ {NonePath}]
Item(p, t) == [p |-> p, t |-> t]
ItemExt(t) == IF t = "IMAGE" THEN ".jpg" ELSE ".mp4"

download_photo(l, e) ==
    IF e.lib = "ok" THEN DlOk(<<Item(MkPath("lib", l.name, 0, ".jpg"), "IMAGE")>>, "IMAGE")
    ELSE CASE e.rawdl = "exc" -> DlFail({})
           [] e.rawdl = "nourl" -> DlFail({})
           [] e.rawdl = "noitems" -> DlOk(<<Item(NonePath, "IMAGE")>>, "IMAGE")
           [] e.rawdl = "stream_exc" -> DlFail({MkPath("user", l.name, 0, ".jpg")})
           [] OTHER -> DlOk(<<Item(MkPath("user", l.name, 0, ".jpg"), "IMAGE")>>, "IMAGE")

download_clip(l, e) ==
    IF e.lib = "ok" THEN DlOk(<<Item(MkPath("lib", l.name, 0, ".mp4"), "VIDEO")>>, "VIDEO")
    ELSE CASE e.rawdl = "exc" -> DlFail({})
           [] e.rawdl = "nourl" -> DlFail({})
           [] e.rawdl = "noitems" -> DlOk(<<Item(NonePath, "VIDEO")>>, "VIDEO")
           [] e.rawdl = "stream_exc" -> DlFail({MkPath("user", l.name, 0, ".mp4")})
           [] OTHER -> DlOk(<<Item(MkPath("user", l.name, 0, ".mp4"), "VIDEO")>>, "VIDEO")

AlbumItems(pre, l, types) ==
    [k \in 1..Len(types) |-> Item(MkPath(pre, l.name, k, ItemExt(types[k])), types[k])]

download_album(l, e) ==
    IF e.lib = "ok" THEN DlOk(AlbumItems("lib", l, e.types), "ALBUM")
    ELSE CASE e.rawdl = "exc" -> DlFail({})
           [] e.rawdl \in {"noitems", "nourl"} -> DlNone
           [] e.rawdl = "stream_exc" /\ Len(e.types) > 0 ->
                DlFail({MkPath("user", l.name, 1, ItemExt(e.types[1]))})
           [] OTHER -> DlOk(AlbumItems("user", l, e.types), "ALBUM")

\* download_media / download_video up to "if not media_info": the stage whose
\* metadata is used, "none" when the function returns failure there.
resolve_media_info(m) == IF m.pk = "exc" THEN "none" ELSE media_info_stage(m)

\* bot.py download_media(link) from the media type on.
download_media_bytes(l, e) ==
    CASE e.mtype = 1 -> download_photo(l, e)
      [] e.mtype = 2 -> download_clip(l, e)
      [] e.mtype = 8 -> download_album(l, e)
      [] OTHER -> DlFail({})

\* bot.py download_media(link).
download_media(l, m, e) ==
    IF resolve_media_info(m) = "none" THEN DlFail({}) ELSE download_media_bytes(l, e)

\* Video_bot.py download_video(link): ret is the local path, NoPath for None.
VdRes(p, w) == [ret |-> p, written |-> w]
\* The name a direct URL is saved under.
direct_filename(l) ==
    IF l.name = "" \/ l.ext = "" THEN MkPath("time", "video", 0, ".mp4")
    ELSE MkPath("url", l.name, 0, l.ext)
DirectEnvs == {"ok", "get_exc", "stream_exc"}

\* Video_bot.py download_video for a direct URL.
download_direct(l, d) ==
    CASE d = "ok" -> VdRes(direct_filename(l), {direct_filename(l)})
      [] d = "stream_exc" -> VdRes(NoPath, {direct_filename(l)})
      [] OTHER -> VdRes(NoPath, {})

\* Video_bot.py download_video for a platform link, from the media type on.
download_video_bytes(l, e) ==
    IF e.mtype # 2 THEN VdRes(NoPath, {})
    ELSE IF e.lib = "ok"
         THEN VdRes(MkPath("lib", l.name, 0, ".mp4"), {MkPath("lib", l.name, 0, ".mp4")})
    ELSE CASE e.rawdl = "ok" ->
                VdRes(MkPath("video", l.name, 0, ".mp4"), {MkPath("video", l.name, 0, ".mp4")})
           [] e.rawdl = "stream_exc" -> VdRes(NoPath, {MkPath("video", l.name, 0, ".mp4")})
           [] OTHER -> VdRes(NoPath, {})

\* Video_bot.py download_video(link).
download_video(l, d, m, e) ==
    IF is_direct_url(l) THEN download_direct(l, d)
    ELSE IF resolve_media_info(m) = "none" THEN VdRes(NoPath, {})
    ELSE download_video_bytes(l, e)

\* ------------------------------------------------------------------ probe
\* HTTP answers: a status code, 0 when the request raised.
HeadAnswers == {200, 204, 206, 301, 302, 403, 0}
GetAnswers == {200, 206, 404, 0}
ContentTypes == {"video/mp4", "text/html", ""}
HeadAccepted == {200, 206, 301, 302, 307, 308}
\* The requests test_url_for_instagram sends for a HEAD answer.
probe_requests(head) == IF head \in HeadAccepted THEN <<"HEAD", "GET">> ELSE <<"HEAD">>
\* The answers one probe saw; the GET answer and its Content-Type only when
\* the GET was sent and answered.
NoProbe == [head |-> 0, get |-> 0, ctype |-> "none"]
ProbeSeen(h, g, ct) ==
    [head |-> h,
     get |-> IF Len(probe_requests(h)) = 2 THEN g ELSE 0,
     ctype |-> IF Len(probe_requests(h)) = 2 /\ g \in {200, 206} THEN ct ELSE "none"]

\* A probe that trusts the HEAD answer alone.
test_url_head_only(head, get, ctype) == head \in HeadAccepted

\* A probe that rejects an answer whose Content-Type is not a video's.
test_url_video_only(head, get, ctype) ==
    head \in HeadAccepted /\ get \in {200, 206} /\ ctype = "video/mp4"

\* Video_bot.py test_url_for_instagram(url), from the HEAD and GET answers.
test_url_for_instagram(head, get, ctype) ==
    IF head = 0 THEN FALSE
    ELSE IF head \in {200, 206, 301, 302, 307, 308}
         THEN IF get = 0 THEN FALSE
              ELSE IF get \in {200, 206}
                   THEN IF ctype \in {"video/mp4"} THEN TRUE ELSE TRUE
                   ELSE FALSE
    ELSE FALSE

\* ------------------------------------------------------------- transcoder
\* What running the encode tool gives: "missing" (FileNotFoundError),
\* "failed" (non-zero exit, nothing written), "failed_partial" (non-zero exit,
\* the output file written in part), "ok" (zero exit), "rename_failed" (zero
\* exit, os.remove done, os.rename raised).
FfmpegOutcomes(p, files) ==
    {"missing", "failed"}
    \cup (IF p \in files /\ output_path(p) # p
          THEN {"failed_partial", "ok", "rename_failed"}
          ELSE {})
ToolFailures == {"missing", "failed", "failed_partial"}

reencode_files_input_dropped(p, files, o) ==
    CASE o = "ok" -> (files \ {output_path(p)}) \cup {p}
      [] o = "rename_failed" -> (files \ {p}) \cup {output_path(p)}
      [] OTHER -> files \ {p}

\* reencode_video(input_path): the files on disk afterwards. The function
\* returns input_path on every path.
reencode_files(p, files, o) ==
    CASE o = "ok" -> (files \ {output_path(p)}) \cup {p}
      [] o = "rename_failed" -> (files \ {p}) \cup {output_path(p)}
      [] o = "failed_partial" -> files \cup {output_path(p)}
      [] OTHER -> files

\* ---------------------------------------------------------------- uploader
UploadEnvs ==
    [post : {"exc", "http_err", "status_fail", "success"},
     head : {200, 403, 0}, get : {200, 404, 0}]

has_url_unchecked(url) == TRUE

\* "if public_url:" / "if not public_url:" after upload_to_tmpfiles of a single asset.
has_url(url) == url # NoUrl

\* bot.py upload_to_tmpfiles(file_path): the URL, NoUrl for None.
bot_upload_to_tmpfiles(p, files, e) ==
    IF p \notin files THEN NoUrl
    ELSE IF e.post = "exc" THEN NoUrl
    ELSE IF e.post = "success" THEN direct_url(PageUrl(p))
    ELSE NoUrl

\* The result of Video_bot.py upload_to_tmpfiles: whether it raised, the URL
\* returned (NoUrl for None) and the verification requests it sent.
UpRes(raised, url, checks) == [raised |-> raised, url |-> url, checks |-> checks]

\* An uploader that gives up when the verification itself raises.
video_upload_to_tmpfiles_strict(p, files, e) ==
    IF p \notin files THEN UpRes(TRUE, NoUrl, <<>>)
    ELSE IF e.post \in {"exc", "http_err", "status_fail"} THEN UpRes(FALSE, NoUrl, <<>>)
    ELSE IF e.head = 0 THEN UpRes(FALSE, NoUrl, <<"HEAD">>)
    ELSE IF e.head = 200 THEN UpRes(FALSE, direct_url(PageUrl(p)), <<"HEAD">>)
    ELSE IF e.get = 0 THEN UpRes(FALSE, NoUrl, <<"HEAD", "GET">>)
    ELSE IF e.get = 200 THEN UpRes(FALSE, direct_url(PageUrl(p)), <<"HEAD", "GET">>)
    ELSE UpRes(FALSE, NoUrl, <<"HEAD", "GET">>)

\* Video_bot.py upload_to_tmpfiles(file_path): "raise" when os.path.getsize
\* raises in front of the try block, else the URL or NoUrl.
video_upload_to_tmpfiles(p, files, e) ==
    IF p \notin files THEN UpRes(TRUE, NoUrl, <<>>)
    ELSE IF e.post \in {"exc", "http_err", "status_fail"} THEN UpRes(FALSE, NoUrl, <<>>)
    ELSE IF e.head = 0 THEN UpRes(FALSE, direct_url(PageUrl(p)), <<"HEAD">>)
    ELSE IF e.head = 200 THEN UpRes(FALSE, direct_url(PageUrl(p)), <<"HEAD">>)
    ELSE IF e.get = 0 THEN UpRes(FALSE, direct_url(PageUrl(p)), <<"HEAD", "GET">>)
    ELSE IF e.get = 200 THEN UpRes(FALSE, direct_url(PageUrl(p)), <<"HEAD", "GET">>)
    ELSE UpRes(FALSE, NoUrl, <<"HEAD", "GET">>)

\* ---------------------------------------------------------------- publish
\* Payloads of the container-creation requests. The id the API gives the
\* container of the k-th item is written k.
NoPayload == [media_type |-> "", carousel_item |-> FALSE, caption |-> FALSE, url |-> NoUrl,
              children |-> <<>>]

\* An item container without the carousel mark.
item_payload_unmarked(item) ==
    [media_type |-> IF item.t = "IMAGE" THEN "" ELSE "VIDEO", carousel_item |-> FALSE,
     caption |-> FALSE, url |-> item.url, children |-> <<>>]

\* bot.py publish_to_instagram: item_payload of one album item.
item_payload(item) ==
    [media_type |-> IF item.t = "IMAGE" THEN "" ELSE "VIDEO", carousel_item |-> TRUE,
     caption |-> FALSE, url |-> item.url, children |-> <<>>]

\* publish_to_instagram: payload of the main container; n is len(item_ids).
main_payload(v, t, media, n) ==
    IF v = "bot" /\ t = "ALBUM"
    THEN [media_type |-> "CAROUSEL", carousel_item |-> FALSE, caption |-> TRUE, url |-> NoUrl,
          children |-> [k \in 1..n |-> k]]
    ELSE [media_type |-> IF v = "bot" /\ t = "IMAGE" THEN "" ELSE "REELS",
          carousel_item |-> FALSE, caption |-> TRUE, url |-> media[1].url, children |-> <<>>]

\* Answers to a container creation or a commit: "id" (HTTP 200 with an id),
\* "http_err" (non-success status, error body), "err_payload" (HTTP 200 with
\* an error object), "no_id" (HTTP 200, neither), "exc" (the request raised).
ApiAnswers == {"id", "http_err", "err_payload", "no_id", "exc"}
HttpOk(a) == a \in {"id", "err_payload", "no_id"}
HasError(a) == a \in {"http_err", "err_payload"}
HasId(a) == a = "id"

\* A publish that goes on after any answer with a success HTTP status.
api_accepts_any_http_ok(v, a) == HttpOk(a)

\* A publish that goes on after any answer that arrived.
api_accepts_any_answer(v, a) == a # "exc"

\* Whether publish_to_instagram goes on after a creation answer, and whether
\* it returns True after a commit answer.
\* A publish that takes a clean answer for a post, id or not.
api_accepts_without_id(v, a) == HttpOk(a) /\ ~HasError(a)

api_accepts(v, a) ==
    IF a = "exc" THEN FALSE
    ELSE IF v = "bot" THEN HasId(a)
    ELSE HttpOk(a) /\ ~HasError(a) /\ HasId(a)

\* Answers to a status request: the four status codes, a non-success HTTP
\* status, an error object, or the request raising.
PollAnswers == {"FINISHED", "ERROR", "IN_PROGRESS", "OTHER", "http_err", "err_payload", "exc"}

\* A poll loop that goes on polling after FINISHED.
poll_step_finished_ignored(v, k) ==
    IF k = "exc" \/ k = "ERROR" THEN "return_false" ELSE "continue"

\* A poll loop that goes on polling after ERROR.
poll_step_error_ignored(v, k) ==
    IF k = "exc" THEN "return_false"
    ELSE IF k = "FINISHED" THEN "break"
    ELSE "continue"

\* A poll loop that polls again when the status request raised.
poll_step_exc_retried(v, k) ==
    CASE k = "FINISHED" -> "break"
      [] k = "ERROR" -> "return_false"
      [] OTHER -> "continue"

\* One turn of the poll loop: "break", "return_false" or "continue".
\* A poll loop that gives up on a status answer with a non-success HTTP status.
poll_step_http_err_aborts(v, k) ==
    IF k \in {"exc", "http_err", "err_payload", "ERROR"} THEN "return_false"
    ELSE IF k = "FINISHED" THEN "break"
    ELSE "continue"

poll_step(v, k) ==
    IF k = "exc" THEN "return_false"
    ELSE IF v = "bot"
         THEN CASE k = "FINISHED" -> "break"
                [] k = "ERROR" -> "return_false"
                [] OTHER -> "continue"
    ELSE CASE k = "http_err" -> "continue"
           [] k = "err_payload" -> "return_false"
           [] k = "FINISHED" -> "break"
           [] k = "ERROR" -> "return_false"
           [] OTHER -> "continue"

\* What follows the poll loop once it has run max_retries times without a
\* break: "commit" or "return_false".
after_poll_loop(v, status_finished) ==
    IF v = "bot" THEN "commit"
    ELSE IF status_finished THEN "commit" ELSE "return_false"

\* Whether a container of this type is polled before the commit.
polls_status_always(v, t) == TRUE

\* A poll loop that also waits after the answer FINISHED.
poll_wait_always(v, k) == poll_step(v, k) \in {"continue", "break"}

\* Whether time.sleep(10) runs in the turn of the poll loop answered k.
poll_wait(v, k) == poll_step(v, k) = "continue"

polls_status(v, t) == IF v = "bot" THEN t \in {"VIDEO", "ALBUM"} ELSE TRUE

\* Video_bot.py publish_to_instagram: the check of the URL in front of the
\* first request: "abort" or "go".
url_recheck_raise_aborts(head, get) ==
    IF head \in {200, 206} \/ (head # 0 /\ get \in {200, 206}) THEN "go" ELSE "abort"

url_recheck(head, get) ==
    IF head = 0 THEN "go"
    ELSE IF head \in {200, 206} THEN "go"
    ELSE IF get = 0 THEN "go"
    ELSE IF get \in {200, 206} THEN "go"
    ELSE "abort"

\* ----------------------------------------------------------------- driver
\* A driver that writes "Yes" whatever the pipeline returned.
status_value_always_yes(ok) == "Yes"

\* The literal written to the status cell.
status_value(ok) == IF ok THEN "Yes" ELSE "No"

\* A driver that marks the row at the moment it hands the job over.
sheet_marked_at_handover(s, v, i) ==
    [s EXCEPT ![i + 1] = update_cell(@, StatusCol(v), "Yes")]

\* What handing a job to the pipeline does to the sheet: nothing.
sheet_at_handover(s, v, i) == s

\* A pipeline that fetches whatever the probe said.
after_probe_always_download(use_original_url) == "download"

\* A pipeline that goes from a rejected probe straight to the upload.
after_probe_skip_fetch(use_original_url) == IF use_original_url THEN "pub_check" ELSE "upload"

\* process_single_row: the step after the probe of the source link.
after_probe(use_original_url) == IF use_original_url THEN "pub_check" ELSE "download"

\* Whether the driver sleeps POST_INTERVAL after writing the outcome.
paces_after(v, ok) == IF v = "bot" THEN TRUE ELSE ~ok

\* process_single_link without the album limit.
limit_album_unlimited(md, t) == md

\* process_single_link: "if len(media_data) > 10: media_data = media_data[:10]".
limit_album(md, t) ==
    IF t = "ALBUM" /\ Len(md) > AlbumLimit THEN SubSeq(md, 1, AlbumLimit) ELSE md

\* The failures of opening the queue: connect_to_sheet returning None,
\* SpreadsheetNotFound, APIError / PermissionError, no worksheet at all, and
\* any other exception of worksheet() or get_all_values().
ConnectFailures == {"no_client", "not_found", "permission", "no_worksheet", "other"}

\* ------------------------------------------------------------------ state
VARIABLES
    variant,           \* "bot": bot.py, "video": Video_bot.py
    remote_albums,     \* the albums the platform serves, as item types
    sheet,             \* the worksheet: the header row, then the data rows
    rows,              \* main: rows, the snapshot get_all_values() returned
    i,                 \* main: the loop index of "for i, row in enumerate(rows)"
    found_job,         \* main: found_job
    wait,              \* the driver's last sleep: "none", "backoff", "pace", "idle"
    pc,                \* the statement the program is at
    job_link,          \* the link handed to the pipeline
    info_stage,        \* download_*: the metadata stage in use while the bytes are fetched
    info_tries,        \* history: the metadata calls made by the fetch under way
    username,          \* download_*: the original poster, until analyze_media has used it
    media_data,        \* process_single_link: media_data, as a list of items
    media_type,        \* process_single_link: media_type
    idx,               \* process_single_link: position in the album loop
    album_urls,        \* process_single_link: album_urls
    video_path,        \* process_single_row: video_path
    processed_video,   \* process_single_row: processed_video
    use_original_url,  \* process_single_row: use_original_url
    pub_type,          \* publish_to_instagram: media_type ("VIDEO" in Video_bot.py)
    pub_media,         \* publish_to_instagram: media_data / video_url
    item_ids,          \* publish_to_instagram: len(item_ids)
    attempt,           \* publish_to_instagram: turns of the poll loop done
    status_finished,   \* publish_to_instagram: status_finished / the loop was left by break
    success,           \* the pipeline's result
    fs,                \* the files on the local disk
    fetched_by,        \* history: for each fetched file on the disk, the source links it was saved for
    created,           \* history: files written by the current run
    calls,             \* history: functions called in the current run
    nStatus,           \* history: status requests issued so far, while publish_to_instagram runs
    nCommit,           \* history: commit requests issued in the current publish
    finishedSeen,      \* history: a status request of this container answered FINISHED
    slept,             \* history: a sleep was the last thing publish_to_instagram did
    last_answer,       \* history: the answer to the last Graph API request of the current run
    probe_seen,        \* history: the answers the probe of the source link has just seen
    last_request,      \* history: the payload of the last container created, while publish_to_instagram runs
    exit,              \* history: how the last run left the pipeline
    aborted,           \* history: the row whose run was cut short, -1 if none
    retried,           \* history: the cut-short row was handed to the pipeline again
    crashes            \* history: number of times the process was killed

driverVars == <<variant, remote_albums, sheet, rows, i, found_job, wait>>
jobVars ==
    <<job_link, info_stage, info_tries, username, media_data, media_type, idx, album_urls, video_path,
      processed_video, use_original_url>>
pubVars == <<pub_type, pub_media, item_ids, attempt, status_finished>>
histVars ==
    <<created, calls, nStatus, nCommit, finishedSeen, slept, last_answer, last_request,
      probe_seen>>
vars ==
    <<driverVars, pc, jobVars, pubVars, success, fs, fetched_by, histVars, exit, aborted, retried,
      crashes>>

DriverPcs == {"main_loop", "for_rows", "update", "except"}
InPipeline == pc \notin DriverPcs
PublishPcs == {"pub_check", "pub_child", "pub_create", "pub_poll", "pub_commit"}

JobReset ==
    /\ job_link' = NoLink
    /\ info_stage' = "none"
    /\ info_tries' = <<>>
    /\ username' = NoUser
    /\ media_data' = <<>>
    /\ media_type' = ""
    /\ idx' = 0
    /\ album_urls' = <<>>
    /\ video_path' = NoPath
    /\ processed_video' = NoPath
    /\ use_original_url' = FALSE
PubReset ==
    /\ pub_type' = ""
    /\ pub_media' = <<>>
    /\ item_ids' = 0
    /\ attempt' = 0
    /\ status_finished' = FALSE
HistReset ==
    /\ created' = {}
    /\ calls' = {}
    /\ nStatus' = 0
    /\ nCommit' = 0
    /\ finishedSeen' = FALSE
    /\ slept' = FALSE
    /\ last_answer' = "none"
    /\ last_request' = NoPayload
    /\ probe_seen' = NoProbe

\* The state of a process that has just started: nothing read, nothing in hand.
InitProcess ==
    /\ rows = <<>>
    /\ i = 0
    /\ found_job = FALSE
    /\ wait = "none"
    /\ pc = "main_loop"
    /\ job_link = NoLink
    /\ info_stage = "none"
    /\ info_tries = <<>>
    /\ username = NoUser
    /\ media_data = <<>>
    /\ media_type = ""
    /\ idx = 0
    /\ album_urls = <<>>
    /\ video_path = NoPath
    /\ processed_video = NoPath
    /\ use_original_url = FALSE
    /\ pub_type = ""
    /\ pub_media = <<>>
    /\ item_ids = 0
    /\ attempt = 0
    /\ status_finished = FALSE
    /\ success = FALSE
    /\ fs = {}
    /\ fetched_by = {}
    /\ created = {}
    /\ calls = {}
    /\ nStatus = 0
    /\ nCommit = 0
    /\ finishedSeen = FALSE
    /\ slept = FALSE
    /\ last_answer = "none"
    /\ last_request = NoPayload
    /\ probe_seen = NoProbe
    /\ exit = "none"
    /\ aborted = -1
    /\ retried = FALSE
    /\ crashes = 0

Init ==
    /\ variant \in Variants
    /\ remote_albums = AlbumShapes
    /\ sheet \in Sheets(variant)
    /\ InitProcess

InitCrash ==
    /\ variant \in Variants
    /\ remote_albums = AlbumShapes
    /\ sheet \in CrashSheets(variant)
    /\ InitProcess

\* bot.py with one pending job whose link, when it is an album, is a long one.
InitAlbum ==
    /\ variant = "bot"
    /\ remote_albums = LongAlbums
    /\ sheet = <<HeaderRow, MkRow(6, PostLink, "", "", "")>>
    /\ InitProcess

\* ----------------------------------------------------------------- driver
\* A driver that stops when the queue cannot be opened.
main_backoff_stops ==
    /\ pc = "main_loop"
    /\ \E cause \in ConnectFailures : pc' = "stopped"
    /\ UNCHANGED <<variant, remote_albums, sheet, rows, i, found_job, wait, jobVars, pubVars, success,
                   fs, fetched_by, histVars, exit, aborted, retried, crashes>>

\* main: opening the queue fails; sleep 60 and start the loop again.
main_backoff ==
    /\ pc = "main_loop"
    /\ \E cause \in ConnectFailures : wait' = "backoff"
    /\ UNCHANGED <<variant, remote_albums, sheet, rows, i, found_job, pc, jobVars, pubVars, success, fs, fetched_by,
                   histVars, exit, aborted, retried, crashes>>

\* main: the queue opens; rows = get_all_values().
main_open ==
    /\ pc = "main_loop"
    /\ rows' = sheet
    /\ i' = 0
    /\ found_job' = FALSE
    /\ pc' = "for_rows"
    /\ UNCHANGED <<variant, remote_albums, sheet, wait, jobVars, pubVars, success, fs, fetched_by, histVars, exit,
                   aborted, retried, crashes>>

\* main: a row the tests in front of the pipeline call pass over.
main_skip ==
    /\ pc = "for_rows"
    /\ i < Len(rows)
    /\ row_decision(variant, i, rows[i + 1]) = "skip"
    /\ i' = i + 1
    /\ UNCHANGED <<variant, remote_albums, sheet, rows, found_job, wait, pc, jobVars, pubVars, success, fs, fetched_by,
                   histVars, exit, aborted, retried, crashes>>

\* main: the row is handed to process_single_link / process_single_row.
main_run ==
    /\ pc = "for_rows"
    /\ i < Len(rows)
    /\ row_decision(variant, i, rows[i + 1]) = "run"
    /\ found_job' = TRUE
    /\ sheet' = sheet_at_handover(sheet, variant, i)
    /\ job_link' = rows[i + 1].A
    /\ pc' = IF variant = "bot" THEN "download" ELSE "srt"
    /\ wait' = "none"
    /\ exit' = "none"
    /\ retried' = (aborted = i)
    /\ aborted' = IF aborted = i THEN -1 ELSE aborted
    /\ HistReset
    /\ PubReset
    /\ UNCHANGED <<variant, remote_albums, rows, i, info_stage, info_tries, username, media_data, media_type, idx, album_urls,
                   video_path, processed_video, use_original_url, success, fs, fetched_by, crashes>>

\* main: the for loop is over; sleep 5 intervals when no job was found.
main_pass_end ==
    /\ pc = "for_rows"
    /\ i = Len(rows)
    /\ wait' = IF found_job THEN wait ELSE "idle"
    /\ pc' = "main_loop"
    /\ UNCHANGED <<variant, remote_albums, sheet, rows, i, found_job, jobVars, pubVars, success, fs, fetched_by,
                   histVars, exit, aborted, retried, crashes>>

\* main: the pipeline returned; update_cell, then the pacing sleep.
main_update ==
    /\ pc = "update"
    /\ sheet' = [sheet EXCEPT ![i + 1] =
                    update_cell(@, StatusCol(variant), status_value(success))]
    /\ wait' = IF paces_after(variant, success) THEN "pace" ELSE wait
    /\ i' = i + 1
    /\ pc' = "for_rows"
    /\ JobReset
    /\ PubReset
    /\ HistReset
    /\ UNCHANGED <<variant, remote_albums, rows, found_job, success, fs, fetched_by, exit, aborted, retried, crashes>>

\* main: "except Exception" of the while loop; sleep 60 and start again.
main_except ==
    /\ pc = "except"
    /\ wait' = "backoff"
    /\ pc' = "main_loop"
    /\ JobReset
    /\ PubReset
    /\ HistReset
    /\ UNCHANGED <<variant, remote_albums, sheet, rows, i, found_job, success, fs, fetched_by, exit, aborted, retried,
                   crashes>>

\* The pipeline returns b to main.
Return(b) ==
    /\ success' = b
    /\ exit' = IF b THEN "true" ELSE "false"
    /\ pc' = "update"
    /\ UNCHANGED aborted

\* An exception leaves the pipeline.
Raise ==
    /\ pc' = "except"
    /\ exit' = "raise"
    /\ aborted' = i
    /\ UNCHANGED success

\* --------------------------------------------------- Video_bot.py pipeline
\* process_single_row, step 1: download_srt_file and parse_srt_content.
psr_srt ==
    /\ variant = "video"
    /\ pc = "srt"
    /\ calls' = calls \cup {"download_srt_file"}
    /\ \E ok \in BOOLEAN :
          IF ok THEN pc' = "caption" /\ UNCHANGED <<success, exit, aborted>>
          ELSE Return(FALSE)
    /\ UNCHANGED <<driverVars, jobVars, pubVars, fs, fetched_by, created, nStatus, nCommit, finishedSeen, last_answer, last_request,
                   slept, probe_seen, retried, crashes>>

\* process_single_row, step 2: generate_caption_from_srt.
psr_caption ==
    /\ variant = "video"
    /\ pc = "caption"
    /\ calls' = calls \cup {"generate_caption_from_srt"}
    /\ \E ok \in BOOLEAN :
          IF ok THEN pc' = "probe" /\ UNCHANGED <<success, exit, aborted>>
          ELSE Return(FALSE)
    /\ UNCHANGED <<driverVars, jobVars, pubVars, fs, fetched_by, created, nStatus, nCommit, finishedSeen, last_answer, last_request,
                   slept, probe_seen, retried, crashes>>

\* process_single_row, step 3: test_url_for_instagram(video_link) and the
\* branch on it; with the original URL the next call is publish_to_instagram.
psr_probe ==
    /\ variant = "video"
    /\ pc = "probe"
    /\ \E h \in HeadAnswers, g \in GetAnswers, ct \in ContentTypes :
          LET use == test_url_for_instagram(h, g, ct) IN
          /\ use_original_url' = use
          /\ probe_seen' = ProbeSeen(h, g, ct)
          /\ IF after_probe(use) = "pub_check"
             THEN /\ pub_media' = <<[url |-> OrigUrl(job_link), t |-> "VIDEO"]>>
                  /\ pub_type' = "VIDEO"
                  /\ pc' = "pub_check"
                  /\ calls' = calls \cup {"test_url_for_instagram", "publish_to_instagram"}
             ELSE /\ pc' = after_probe(use)
                  /\ calls' = calls \cup {"test_url_for_instagram"}
                  /\ UNCHANGED <<pub_media, pub_type>>
    /\ UNCHANGED <<driverVars, job_link, info_stage, info_tries, username, media_data, media_type, idx, album_urls,
                   video_path, processed_video, item_ids, attempt, status_finished, success,
                   fs, fetched_by, created, nStatus, nCommit, finishedSeen, last_answer, last_request, slept, exit, aborted, retried,
                   crashes>>

\* download_video for a direct URL.
video_direct ==
    /\ variant = "video"
    /\ pc = "download"
    /\ is_direct_url(job_link)
    /\ calls' = calls \cup {"download_video"}
    /\ \E d \in DirectEnvs :
          LET r == download_direct(job_link, d) IN
          /\ fs' = fs \cup r.written
          /\ fetched_by' = fetched_by \cup {<<p, job_link>> : p \in r.written}
          /\ created' = created \cup r.written
          /\ IF r.ret = NoPath
             THEN Return(FALSE) /\ UNCHANGED video_path
             ELSE /\ video_path' = r.ret
                  /\ pc' = "reencode"
                  /\ UNCHANGED <<success, exit, aborted>>
    /\ probe_seen' = NoProbe
    /\ UNCHANGED <<driverVars, job_link, info_stage, info_tries, username, media_data, media_type, idx, album_urls,
                   processed_video, use_original_url, pubVars, nStatus, nCommit,
                   finishedSeen, last_answer, last_request, slept, retried, crashes>>

\* download_media / download_video for a platform link, up to the metadata.
fetch_info ==
    /\ pc = "download"
    /\ variant = "bot" \/ ~is_direct_url(job_link)
    /\ calls' = calls \cup {IF variant = "bot" THEN "download_media" ELSE "download_video",
                            "media_pk_from_url"}
    /\ \E m \in MetaEnvs :
          /\ info_tries' = IF m.pk = "exc" THEN <<>> ELSE media_info_tries(m)
          /\ IF resolve_media_info(m) = "none"
             THEN Return(FALSE) /\ UNCHANGED <<info_stage, username>>
             ELSE /\ info_stage' = resolve_media_info(m)
                  /\ username' = media_username(m)
                  /\ pc' = "download_bytes"
                  /\ UNCHANGED <<success, exit, aborted>>
    /\ probe_seen' = NoProbe
    /\ UNCHANGED <<driverVars, job_link, media_data, media_type, idx, album_urls, video_path,
                   processed_video, use_original_url, pubVars, fs, fetched_by, created, nStatus, nCommit,
                   finishedSeen, last_answer, last_request, slept, retried, crashes>>

\* download_video for a platform link, from the media type on.
video_fetch_bytes ==
    /\ variant = "video"
    /\ pc = "download_bytes"
    /\ \E e \in ByteEnvs(remote_albums) :
          LET r == download_video_bytes(job_link, e) IN
          /\ fs' = fs \cup r.written
          /\ fetched_by' = fetched_by \cup {<<p, job_link>> : p \in r.written}
          /\ created' = created \cup r.written
          /\ IF r.ret = NoPath
             THEN Return(FALSE) /\ UNCHANGED video_path
             ELSE /\ video_path' = r.ret
                  /\ pc' = "reencode"
                  /\ UNCHANGED <<success, exit, aborted>>
    /\ info_stage' = "none"
    /\ info_tries' = <<>>
    /\ username' = NoUser
    /\ UNCHANGED <<driverVars, job_link, media_data, media_type, idx, album_urls,
                   processed_video, use_original_url, pubVars, calls, nStatus, nCommit,
                   finishedSeen, last_answer, last_request, slept, probe_seen, retried, crashes>>

\* ---------------------------------------------------------- bot.py pipeline
\* download_media from the media type on, and the unpacking of its result in
\* process_single_link: a result of None cannot be unpacked and raises.
bot_fetch_bytes ==
    /\ variant = "bot"
    /\ pc = "download_bytes"
    /\ \E e \in ByteEnvs(remote_albums) :
          LET r == download_media_bytes(job_link, e) IN
          /\ fs' = fs \cup r.written
          /\ fetched_by' = fetched_by \cup {<<p, job_link>> : p \in r.written}
          /\ created' = created \cup r.written
          /\ CASE r.ret = "none" ->
                    Raise /\ username' = NoUser /\ UNCHANGED <<media_data, media_type>>
               [] r.ret = "fail" \/ (r.ret = "triple" /\ r.data = <<>>) ->
                    Return(FALSE) /\ username' = NoUser /\ UNCHANGED <<media_data, media_type>>
               [] OTHER ->
                    /\ media_data' = r.data
                    /\ media_type' = r.type
                    /\ pc' = "analyze"
                    /\ UNCHANGED <<success, exit, aborted, username>>
    /\ info_stage' = "none"
    /\ info_tries' = <<>>
    /\ UNCHANGED <<driverVars, job_link, idx, album_urls, video_path,
                   processed_video, use_original_url, pubVars, calls, nStatus, nCommit,
                   finishedSeen, last_answer, last_request, slept, probe_seen, retried, crashes>>

\* process_single_link: the album limit, analyze_media, and the branch on the
\* caption. analyze_media returns None when the file cannot be opened.
bot_analyze ==
    /\ variant = "bot"
    /\ pc = "analyze"
    /\ calls' = calls \cup {"analyze_media"}
    /\ LET md == limit_album(media_data, media_type) IN
       /\ media_data' = md
       /\ \E cap \in (IF md[1].p \in fs THEN BOOLEAN ELSE {FALSE}) :
             IF cap
             THEN /\ idx' = 1
                  /\ pc' = IF md[1].t = "VIDEO" THEN "reencode" ELSE "upload"
                  /\ UNCHANGED success
             ELSE /\ success' = FALSE
                  /\ pc' = "cleanup"
                  /\ UNCHANGED idx
    /\ username' = NoUser
    /\ UNCHANGED <<driverVars, job_link, info_stage, info_tries, media_type, album_urls, video_path,
                   processed_video, use_original_url, pubVars, fs, fetched_by, created, nStatus, nCommit,
                   finishedSeen, last_answer, last_request, slept, exit, aborted, probe_seen, retried, crashes>>

\* ------------------------------------------------- transcode and staging
\* The path the current step works on.
\* An album loop in which one failed upload empties the list.
stage_item_reset_on_failure(urls, item, url) ==
    IF url # NoUrl THEN Append(urls, [url |-> url, t |-> item.t]) ELSE <<>>

\* process_single_link, album loop: "if url: album_urls.append((url, m_t))".
stage_item(urls, item, url) ==
    IF url # NoUrl THEN Append(urls, [url |-> url, t |-> item.t]) ELSE urls

CurItem == IF variant = "bot" THEN media_data[idx] ELSE [p |-> video_path, t |-> "VIDEO"]

\* reencode_video(path); both pipelines go on to upload_to_tmpfiles with the
\* path it returns, which is the path it was given.
reencode_video ==
    /\ pc = "reencode"
    /\ calls' = calls \cup {"reencode_video"}
    /\ \E o \in FfmpegOutcomes(CurItem.p, fs) :
          /\ fs' = reencode_files(CurItem.p, fs, o)
          /\ fetched_by' = {f \in fetched_by : f[1] \in reencode_files(CurItem.p, fs, o)}
          /\ created' = created \cup (reencode_files(CurItem.p, fs, o) \ fs)
    /\ processed_video' = IF variant = "video" THEN video_path ELSE processed_video
    /\ pc' = "upload"
    /\ UNCHANGED <<driverVars, job_link, info_stage, info_tries, username, media_data, media_type, idx, album_urls,
                   video_path, use_original_url, pubVars, success, nStatus, nCommit,
                   finishedSeen, last_answer, last_request, slept, exit, aborted, probe_seen, retried, crashes>>

\* process_single_row, step 6: upload_to_tmpfiles; no URL, or an exception,
\* returns False from inside the try block.
video_upload ==
    /\ variant = "video"
    /\ pc = "upload"
    /\ \E e \in UploadEnvs :
          LET r == video_upload_to_tmpfiles(processed_video, fs, e) IN
          IF r.raised \/ ~has_url(r.url)
          THEN /\ Return(FALSE)
               /\ calls' = calls \cup {"upload_to_tmpfiles"}
               /\ UNCHANGED <<pub_media, pub_type>>
          ELSE /\ pub_media' = <<[url |-> r.url, t |-> "VIDEO"]>>
               /\ pub_type' = "VIDEO"
               /\ pc' = "pub_check"
               /\ calls' = calls \cup {"upload_to_tmpfiles", "publish_to_instagram"}
               /\ UNCHANGED <<success, exit, aborted>>
    /\ UNCHANGED <<driverVars, jobVars, item_ids, attempt, status_finished, fs, fetched_by, created,
                   nStatus, nCommit, finishedSeen, last_answer, last_request, slept, probe_seen, retried, crashes>>

\* process_single_link: upload_to_tmpfiles for the single asset or for one
\* album item, and what follows it.
bot_upload ==
    /\ variant = "bot"
    /\ pc = "upload"
    /\ \E e \in UploadEnvs :
          LET url == bot_upload_to_tmpfiles(CurItem.p, fs, e)
              staged == [url |-> url, t |-> CurItem.t]
              urls == stage_item(album_urls, CurItem, url)
          IN
          IF media_type = "ALBUM"
          THEN IF idx < Len(media_data)
               THEN /\ album_urls' = urls
                    /\ idx' = idx + 1
                    /\ pc' = IF media_data[idx + 1].t = "VIDEO" THEN "reencode" ELSE "upload"
                    /\ calls' = calls \cup {"upload_to_tmpfiles"}
                    /\ UNCHANGED <<pub_media, pub_type, success>>
               ELSE IF Len(urls) > 0
               THEN /\ album_urls' = urls
                    /\ pub_media' = urls
                    /\ pub_type' = "ALBUM"
                    /\ pc' = "pub_child"
                    /\ calls' = calls \cup {"upload_to_tmpfiles", "publish_to_instagram"}
                    /\ UNCHANGED <<idx, success>>
               ELSE /\ success' = FALSE
                    /\ pc' = "cleanup"
                    /\ calls' = calls \cup {"upload_to_tmpfiles"}
                    /\ UNCHANGED <<album_urls, idx, pub_media, pub_type>>
          ELSE IF has_url(url)
               THEN /\ pub_media' = <<staged>>
                    /\ pub_type' = media_type
                    /\ pc' = "pub_create"
                    /\ calls' = calls \cup {"upload_to_tmpfiles", "publish_to_instagram"}
                    /\ UNCHANGED <<album_urls, idx, success>>
               ELSE /\ success' = FALSE
                    /\ pc' = "cleanup"
                    /\ calls' = calls \cup {"upload_to_tmpfiles"}
                    /\ UNCHANGED <<album_urls, idx, pub_media, pub_type>>
    /\ UNCHANGED <<driverVars, job_link, info_stage, info_tries, username, media_data, media_type, video_path,
                   processed_video, use_original_url, item_ids, attempt, status_finished, fs, fetched_by,
                   created, nStatus, nCommit, finishedSeen, last_answer, last_request, slept, exit, aborted, probe_seen, retried,
                   crashes>>

\* ---------------------------------------------------------------- publish
\* publish_to_instagram returns b to the pipeline.
PubReturn(b) ==
    /\ success' = b
    /\ pc' = "cleanup"
    /\ item_ids' = 0
    /\ attempt' = 0
    /\ status_finished' = FALSE
    /\ nStatus' = 0
    /\ last_request' = NoPayload

\* Video_bot.py publish_to_instagram: the check of the URL before the first request.
pub_check ==
    /\ variant = "video"
    /\ pc = "pub_check"
    /\ \E h \in HeadAnswers, g \in GetAnswers :
          IF url_recheck(h, g) = "abort"
          THEN PubReturn(FALSE)
          ELSE /\ pc' = "pub_create"
               /\ UNCHANGED <<success, item_ids, attempt, status_finished, nStatus,
                              last_request>>
    /\ probe_seen' = NoProbe
    /\ UNCHANGED <<driverVars, jobVars, pub_type, pub_media, fs, fetched_by, created, calls, nCommit,
                   finishedSeen, last_answer, slept, exit, aborted, retried, crashes>>

\* bot.py publish_to_instagram, album: the container of one item; after the
\* last one, sleep 15.
pub_child ==
    /\ variant = "bot"
    /\ pc = "pub_child"
    /\ \E a \in ApiAnswers :
          /\ last_answer' = a
          /\ IF a = "exc" \/ ~HasId(a)
             THEN PubReturn(FALSE) /\ UNCHANGED slept
             ELSE /\ last_request' = item_payload(pub_media[item_ids + 1])
                  /\ item_ids' = item_ids + 1
                  /\ pc' = IF item_ids + 1 = Len(pub_media) THEN "pub_create" ELSE "pub_child"
                  /\ slept' = (item_ids + 1 = Len(pub_media))
                  /\ UNCHANGED <<success, attempt, status_finished, nStatus>>
    /\ UNCHANGED <<driverVars, jobVars, pub_type, pub_media, fs, fetched_by, created, calls, nCommit,
                   finishedSeen, exit, aborted, probe_seen, retried, crashes>>

\* Step 1: the main container; on success sleep 10.
pub_create ==
    /\ pc = "pub_create"
    /\ \E a \in ApiAnswers :
          /\ last_answer' = a
          /\ IF api_accepts(variant, a)
             THEN /\ last_request' = main_payload(variant, pub_type, pub_media, item_ids)
                  /\ pc' = IF polls_status(variant, pub_type) THEN "pub_poll" ELSE "pub_commit"
                  /\ slept' = TRUE
                  /\ UNCHANGED <<success, item_ids, attempt, status_finished, nStatus>>
             ELSE PubReturn(FALSE) /\ UNCHANGED slept
    /\ UNCHANGED <<driverVars, jobVars, pub_type, pub_media, fs, fetched_by, created, calls, nCommit,
                   finishedSeen, exit, aborted, probe_seen, retried, crashes>>

\* Step 2: one turn of the poll loop, and the code after the loop when this
\* turn was the last.
pub_poll ==
    /\ pc = "pub_poll"
    /\ attempt < max_retries
    /\ \E k \in PollAnswers :
          /\ finishedSeen' = (finishedSeen \/ k = "FINISHED")
          /\ last_answer' = k
          /\ CASE poll_step(variant, k) = "break" ->
                    /\ status_finished' = TRUE
                    /\ pc' = "pub_commit"
                    /\ slept' = poll_wait(variant, k)
                    /\ nStatus' = nStatus + 1
                    /\ UNCHANGED <<success, item_ids, attempt, last_request>>
               [] poll_step(variant, k) = "return_false" ->
                    PubReturn(FALSE) /\ slept' = poll_wait(variant, k)
               [] OTHER ->
                    /\ slept' = poll_wait(variant, k)
                    /\ IF attempt + 1 < max_retries
                       THEN /\ attempt' = attempt + 1
                            /\ nStatus' = nStatus + 1
                            /\ UNCHANGED <<pc, success, item_ids, status_finished,
                                           last_request>>
                       ELSE IF after_poll_loop(variant, status_finished) = "commit"
                       THEN /\ attempt' = attempt + 1
                            /\ nStatus' = nStatus + 1
                            /\ pc' = "pub_commit"
                            /\ UNCHANGED <<success, item_ids, status_finished, last_request>>
                       ELSE PubReturn(FALSE)
    /\ UNCHANGED <<driverVars, jobVars, pub_type, pub_media, fs, fetched_by, created, calls, nCommit,
                   exit, aborted, probe_seen, retried, crashes>>

\* Step 3: the commit request, POST media_publish.
pub_commit ==
    /\ pc = "pub_commit"
    /\ nCommit' = nCommit + 1
    /\ slept' = FALSE
    /\ \E a \in ApiAnswers : last_answer' = a /\ PubReturn(api_accepts(variant, a))
    /\ UNCHANGED <<driverVars, jobVars, pub_type, pub_media, fs, fetched_by, created, calls,
                   finishedSeen, exit, aborted, probe_seen, retried, crashes>>

\* ---------------------------------------------------------------- cleanup
\* The files the cleanup block removes.
cleanup_paths(v, md, vp, pv) ==
    IF v = "bot" THEN {md[k].p : k \in 1..Len(md)} ELSE {pv, vp}

\* The cleanup block at the end of the pipeline, then "return success".
cleanup ==
    /\ pc = "cleanup"
    /\ fs' = fs \ cleanup_paths(variant, media_data, video_path, processed_video)
    /\ fetched_by' = {f \in fetched_by : f[1] \in fs'}
    /\ Return(success)
    /\ UNCHANGED <<driverVars, jobVars, pubVars, histVars, retried, crashes>>

\* -------------------------------------------------------------- the process
\* The process is killed in the middle of a job and started again: the sheet
\* and the disk stay, everything else starts anew.
Crash ==
    /\ InPipeline
    /\ crashes < MaxCrashes
    /\ crashes' = crashes + 1
    /\ aborted' = i
    /\ exit' = "crash"
    /\ pc' = "main_loop"
    /\ rows' = <<>>
    /\ i' = 0
    /\ found_job' = FALSE
    /\ wait' = "none"
    /\ success' = FALSE
    /\ JobReset
    /\ PubReset
    /\ HistReset
    /\ UNCHANGED <<variant, remote_albums, sheet, fs, fetched_by, retried>>

Next ==
    \/ main_backoff
    \/ main_open
    \/ main_skip
    \/ main_run
    \/ main_pass_end
    \/ main_update
    \/ main_except
    \/ psr_srt
    \/ psr_caption
    \/ psr_probe
    \/ video_direct
    \/ fetch_info
    \/ video_fetch_bytes
    \/ bot_fetch_bytes
    \/ bot_analyze
    \/ reencode_video
    \/ video_upload
    \/ bot_upload
    \/ pub_check
    \/ pub_child
    \/ pub_create
    \/ pub_poll
    \/ pub_commit
    \/ cleanup

Spec == Init /\ [][Next]_vars

NextCrash == Next \/ Crash

SpecCrash == InitCrash /\ [][NextCrash]_vars

\* bot.py alone.
NextBot ==
    \/ main_backoff
    \/ main_open
    \/ main_skip
    \/ main_run
    \/ main_pass_end
    \/ main_update
    \/ main_except
    \/ fetch_info
    \/ bot_fetch_bytes
    \/ bot_analyze
    \/ reencode_video
    \/ bot_upload
    \/ pub_child
    \/ pub_create
    \/ pub_poll
    \/ pub_commit
    \/ cleanup

SpecAlbum == InitAlbum /\ [][NextBot]_vars

\* Video_bot.py with two pending jobs whose direct links differ and end in
\* the same file name.
InitNames ==
    /\ variant = "video"
    /\ remote_albums = AlbumShapes
    /\ sheet = <<HeaderRow, MkRow(6, CdnLink, "srt", "", ""), MkRow(6, MirrorLink, "srt", "", "")>>
    /\ InitProcess

\* Video_bot.py on direct links alone.
NextDirect ==
    \/ main_backoff
    \/ main_open
    \/ main_skip
    \/ main_run
    \/ main_pass_end
    \/ main_update
    \/ psr_srt
    \/ psr_caption
    \/ psr_probe
    \/ video_direct
    \/ reencode_video
    \/ video_upload
    \/ pub_check
    \/ pub_create
    \/ pub_poll
    \/ pub_commit
    \/ cleanup

SpecNames == InitNames /\ [][NextDirect]_vars

\* ------------------------------------------------------------- properties
\* The status cell of the row the driver is at.
CurStatus == StatusCell(variant, sheet[i + 1])

\* C1: in a video or album publish the commit request is issued only after a
\* status request of that container answered FINISHED.
C1_CommitOnlyAfterFinished ==
    (nCommit > 0 /\ pub_type \in {"VIDEO", "ALBUM"}) => finishedSeen

\* C2: a video or album publish in which no status request answers FINISHED
\* issues at most max_retries status requests and returns False.
C2_TimeoutReturnsFalse ==
    /\ nStatus <= max_retries
    /\ (/\ pc = "cleanup"
        /\ "publish_to_instagram" \in calls
        /\ pub_type \in {"VIDEO", "ALBUM"}
        /\ ~finishedSeen) => ~success

\* C3: when the pipeline has left, by return or by exception, no file
\* written by that run is on the disk.
C3_NoFileLeftAfterRun ==
    pc \in {"update", "except"} => created \cap fs = {}

\* C4: the pipeline never leaves by an exception.
C4_PipelineNeverRaises == exit # "raise"

\* C5: a pass is left only when every row after the one the driver is at has
\* been looked at: no row that is due stays behind a job that failed.
C5_LaterRowsStillHanded ==
    pc = "main_loop" =>
        \A j \in (i + 1)..(Len(rows) - 1) : row_decision(variant, j, rows[j + 1]) = "skip"

\* C6: a row whose status cell holds "Yes" is never in the pipeline.
C6_YesRowNeverHanded == InPipeline => CurStatus # "Yes"
\* A row marked "Yes" was passed over and the row after it is in the pipeline.
C6_Witness == InPipeline /\ i = 2 /\ StatusCell(variant, sheet[2]) = "Yes"

C8_StatusWrittenOnce ==
    [][/\ (sheet' # sheet => pc = "update")
       /\ (pc = "update" =>
             /\ exit \in {"true", "false"}
             /\ sheet' = [sheet EXCEPT ![i + 1] =
                             update_cell(@, StatusCol(variant),
                                         IF exit = "true" THEN "Yes" ELSE "No")]
             /\ StatusCell(variant, sheet'[i + 1]) = (IF exit = "true" THEN "Yes" ELSE "No")
             /\ i' = i + 1
             /\ pc' = "for_rows")]_vars
\* The first job was pending, returned True, and its row now holds "Yes".
C8_Witness ==
    /\ pc = "for_rows"
    /\ i = 2
    /\ exit = "true"
    /\ StatusCell(variant, rows[2]) = ""
    /\ StatusCell(variant, sheet[2]) = "Yes"

\* C9: from the handover to the pipeline's return the sheet is not written;
\* a row whose run was cut short by a crash or an exception is still due, and
\* the next time the driver is at it the job is handed over anew, with
\* nothing kept from the run before.
C9_NoWriteBeforeReturn ==
    [][/\ ((InPipeline \/ InPipeline') => sheet' = sheet)
       /\ (aborted' # -1 => row_decision(variant, aborted', sheet'[aborted' + 1]) = "run")
       /\ ((pc = "for_rows" /\ i < Len(rows) /\ aborted = i) =>
             /\ InPipeline'
             /\ retried'
             /\ job_link' = sheet[i + 1].A
             /\ calls' = {}
             /\ media_data' = <<>>
             /\ video_path' = NoPath
             /\ pub_media' = <<>>)]_vars
\* The process was killed in the middle of a job and the job is in the
\* pipeline again.
C9_Witness == retried /\ InPipeline /\ crashes > 0

\* C10: once the probe has accepted the source link, the run calls neither
\* download_video nor reencode_video nor upload_to_tmpfiles, writes no file,
\* and publish_to_instagram is called with the source link.
C10_OriginalLinkSkipsStaging ==
    (variant = "video" /\ use_original_url) =>
        /\ calls \cap {"download_video", "reencode_video", "upload_to_tmpfiles"} = {}
        /\ created = {}
        /\ "publish_to_instagram" \in calls
        /\ pub_media = <<[url |-> OrigUrl(job_link), t |-> "VIDEO"]>>
\* The probe accepted the link and the commit request has been issued.
C10_Witness == variant = "video" /\ use_original_url /\ nCommit > 0

\* C11: the status request that answers FINISHED, on whichever turn of the
\* budget it comes, is the last one: the next request is the commit, exactly
\* one commit is issued, and publish_to_instagram returns after it.
C11_FinishedThenOneCommit ==
    [][/\ ((pc = "pub_poll" /\ last_answer' = "FINISHED") =>
             /\ pc' = "pub_commit"
             /\ nStatus' = nStatus + 1
             /\ nCommit' = 0)
       /\ (nStatus' > nStatus => (pc = "pub_poll" /\ ~finishedSeen))
       /\ (pc = "pub_commit" => (nCommit = 0 /\ nCommit' = 1 /\ pc' = "cleanup"))
       /\ (nCommit' # nCommit => (pc = "pub_commit" \/ nCommit' = 0))]_vars
\* FINISHED came on the last turn of the budget and the commit is next.
C11_Witness ==
    /\ pc = "pub_commit"
    /\ last_answer = "FINISHED"
    /\ nStatus = max_retries
    /\ nCommit = 0

\* C12: a creation answer with a non-success HTTP status, an error payload
\* or no id makes publish_to_instagram return False in that step: no second
\* creation request, no status request, no commit.
C12_CreationFailureAborts ==
    [][(/\ pc \in {"pub_child", "pub_create"}
        /\ last_answer' \in {"http_err", "err_payload", "no_id"}) =>
            /\ pc' = "cleanup"
            /\ success' = FALSE
            /\ nStatus = 0 /\ nStatus' = 0
            /\ nCommit = 0 /\ nCommit' = 0]_vars
\* The creation answer had no id and the publish returned False with no
\* commit issued.
C12_Witness ==
    /\ pc = "cleanup"
    /\ "publish_to_instagram" \in calls
    /\ last_answer = "no_id"
    /\ nCommit = 0
    /\ ~success

\* C13: a status answer ERROR makes publish_to_instagram return False in
\* that step, with no commit; IN_PROGRESS or an unrecognized code is followed
\* by the next turn of the loop while the budget lasts.
C13_ErrorAbortsPendingContinues ==
    [][/\ ((pc = "pub_poll" /\ last_answer' = "ERROR") =>
             /\ pc' = "cleanup"
             /\ success' = FALSE
             /\ nCommit' = 0)
       /\ ((/\ pc = "pub_poll"
            /\ last_answer' \in {"IN_PROGRESS", "OTHER"}
            /\ attempt + 1 < max_retries) =>
                /\ pc' = "pub_poll"
                /\ attempt' = attempt + 1
                /\ nStatus' = nStatus + 1)]_vars
\* A status request answered ERROR and the publish returned False.
C13_Witness ==
    /\ pc = "cleanup"
    /\ last_answer = "ERROR"
    /\ nCommit = 0
    /\ ~success

\* C14: publish_to_instagram returns True exactly when the commit was issued
\* and answered with a success status, no error payload and an id.
C14_TrueIffCommitAccepted ==
    (pc = "cleanup" /\ "publish_to_instagram" \in calls) =>
        (success <=> (nCommit = 1 /\ last_answer = "id"))
\* The commit was issued, answered with an error, and the publish returned False.
C14_Witness ==
    /\ pc = "cleanup"
    /\ nCommit = 1
    /\ last_answer = "err_payload"
    /\ ~success

\* C15: when a request of publish_to_instagram raises, the call returns
\* False in that step, nothing is raised out of it, and no request follows.
C15_TransportFaultReturnsFalse ==
    [][/\ ((pc \in PublishPcs /\ pc # "pub_check" /\ last_answer' = "exc") =>
             /\ pc' = "cleanup"
             /\ success' = FALSE
             /\ exit' = exit)
       /\ (last_answer = "exc" =>
             /\ pc \in {"cleanup", "update"}
             /\ pc' \notin PublishPcs
             /\ exit' # "raise")]_vars
\* A creation or status request of a video publish raised, and the pipeline
\* returned False to the driver.
C15_Witness ==
    /\ pc = "update"
    /\ last_answer = "exc"
    /\ exit = "false"
    /\ nCommit = 0
    /\ pub_type = "VIDEO"

\* C16: whatever the size of the album, publish_to_instagram is handed at
\* most AlbumLimit items, so at most that many item containers are created
\* and the carousel container names at most that many children.
C16_AtMostTenChildren ==
    /\ Len(pub_media) <= AlbumLimit
    /\ item_ids <= AlbumLimit
    /\ Len(last_request.children) <= AlbumLimit
\* An album of more than AlbumLimit items was downloaded and the job
\* returned True.
C16_Witness ==
    /\ pc = "update"
    /\ exit = "true"
    /\ pub_type = "ALBUM"
    /\ Cardinality(created) > AlbumLimit
    /\ Len(pub_media) = AlbumLimit

\* C17: in an album publish each item gets its container, marked as a
\* carousel item, in item order; an answer without an id ends the publish
\* with False; the carousel container is requested only when every item has
\* its container and the settle sleep is over, with type CAROUSEL, the
\* caption, and the children in item order.
C17_ChildrenBeforeParent ==
    [][/\ (pc = "pub_child" =>
             /\ pub_type = "ALBUM"
             /\ item_ids < Len(pub_media)
             /\ IF last_answer' = "id"
                THEN /\ last_request'.carousel_item
                     /\ last_request'.url = pub_media[item_ids + 1].url
                     /\ item_ids' = item_ids + 1
                     /\ pc' = IF item_ids' = Len(pub_media) THEN "pub_create" ELSE "pub_child"
                ELSE pc' = "cleanup" /\ success' = FALSE)
       /\ ((pc = "pub_create" /\ pub_type = "ALBUM") =>
             /\ item_ids = Len(pub_media)
             /\ slept
             /\ (last_answer' = "id" =>
                   /\ last_request'.media_type = "CAROUSEL"
                   /\ last_request'.caption
                   /\ last_request'.children = [k \in 1..Len(pub_media) |-> k]))
       /\ ((pc' = "pub_create" /\ pub_type' = "ALBUM") => pc = "pub_child")]_vars
\* The carousel container of a two-item album was created.
C17_Witness ==
    /\ pc = "pub_poll"
    /\ pub_type = "ALBUM"
    /\ Len(pub_media) = 2
    /\ last_answer = "id"
    /\ last_request.media_type = "CAROUSEL"
\* C18: when bot.py publishes a single image, the container id returned by the
\* creation request leads straight to the commit request: the publish is never
\* at the status poll and no status request has been sent.
C18_ImageNotPolled ==
    (variant = "bot" /\ pub_type = "IMAGE" /\ pc \in {"pub_create", "pub_poll", "pub_commit"})
        => (pc # "pub_poll" /\ nStatus = 0)

C18_Witness ==
    /\ variant = "bot"
    /\ pub_type = "IMAGE"
    /\ pc = "pub_commit"
    /\ last_answer = "id"
    /\ nStatus = 0
    /\ nCommit = 0

\* C19: a fetch of a platform link makes its metadata calls in the order
\* media_info, media_info_gql, media_info_a1, raw private request; every call
\* before the last one made yielded nothing, so a call is made only when no
\* earlier one yielded metadata and none is made after the first that did; the
\* fetch goes on with the metadata of that call, and once the chain has started
\* the fetch fails there only after all four calls yielded nothing.
C19_StagesInOrder ==
    [][(pc = "download" /\ pc' # pc /\ (variant = "bot" \/ ~is_direct_url(job_link))) =>
          LET n == Len(info_tries') IN
          /\ n <= Len(StageOrder)
          /\ \A k \in 1..n : info_tries'[k].stage = StageOrder[k]
          /\ \A k \in 1..n : info_tries'[k].got => k = n
          /\ (pc' = "download_bytes") <=> (n > 0 /\ info_tries'[n].got)
          /\ (pc' = "download_bytes") => info_stage' = info_tries'[n].stage
          /\ (pc' # "download_bytes" /\ n > 0) =>
                (n = Len(StageOrder) /\ \A k \in 1..n : ~info_tries'[k].got)]_vars

C19_Witness ==
    /\ pc = "download_bytes"
    /\ Len(info_tries) = 3
    /\ ~info_tries[1].got
    /\ ~info_tries[2].got
    /\ info_stage = "a1"

\* C20: in Video_bot.py a job whose link is a direct file URL (a video
\* extension or an /uploads path, not on the platform's host) never resolves a
\* media handle, makes no metadata call, never reaches the platform download
\* and writes only the file named after the URL; its fetch either hands that
\* file on or, when the direct stream fails, fails at once.
C20_DirectUrlOnlyStreamed ==
    /\ [](  (variant = "video" /\ job_link \in {CdnLink, MovLink}) =>
              /\ "media_pk_from_url" \notin calls
              /\ info_tries = <<>>
              /\ info_stage = "none"
              /\ pc # "download_bytes"
              /\ \A p \in created : p.pre \in {"url", "time"})
    /\ [][(variant = "video" /\ job_link \in {CdnLink, MovLink} /\ pc = "download" /\ pc' # pc) =>
              \/ /\ pc' = "reencode"
                 /\ video_path' = direct_filename(job_link)
                 /\ video_path' \in fs'
              \/ /\ pc' = "update"
                 /\ exit' = "false"
                 /\ video_path' = video_path]_vars

C20_Witness ==
    /\ variant = "video"
    /\ job_link \in {CdnLink, MovLink}
    /\ pc = "update"
    /\ exit = "false"
    /\ "download_video" \in calls
    /\ "reencode_video" \notin calls

\* C21: when the metadata of a platform link comes from the raw request (every
\* structured call failed) and the item is a video whose bytes the library
\* download or the raw-URL stream delivers, the fetch yields a video: the
\* username in hand is the user.username of the raw payload, bot.py
\* download_media returns one VIDEO item of kind VIDEO with that username, and
\* Video_bot.py download_video returns a path.
C21_RawMetadataYieldsVideo ==
    /\ []((pc = "download_bytes" /\ info_stage = "raw") =>
            /\ Len(info_tries) = Len(StageOrder)
            /\ \A k \in 1..3 : ~info_tries[k].got
            /\ username = info_tries[Len(StageOrder)].user
            /\ \A e \in ByteEnvs(remote_albums) :
                  (e.mtype = 2 /\ (e.lib = "ok" \/ e.rawdl = "ok")) =>
                     IF variant = "bot"
                     THEN /\ download_media_bytes(job_link, e).ret = "triple"
                          /\ download_media_bytes(job_link, e).type = "VIDEO"
                          /\ Len(download_media_bytes(job_link, e).data) = 1
                          /\ download_media_bytes(job_link, e).data[1].t = "VIDEO"
                     ELSE download_video_bytes(job_link, e).ret # NoPath)
    /\ [][(pc = "download_bytes" /\ info_stage = "raw" /\ variant = "bot" /\ pc' = "analyze") =>
              username' = info_tries[Len(StageOrder)].user]_vars

C21_Witness ==
    /\ variant = "bot"
    /\ pc = "analyze"
    /\ media_type = "VIDEO"
    /\ media_data[1].p.pre = "user"
    /\ username = "bob"

\* C22: the bytes of a photo, a video or an album are fetched in two tiers: a
\* library download that succeeds settles the result whatever the raw request
\* would answer, and when the library download raises and the raw request
\* fails, has no item or has no media URL, the fetch reports failure (bot.py:
\* the (None, None, None) result; Video_bot.py: None).
C22_TwoTierBytes ==
    (pc = "download_bytes") =>
        \A e \in ByteEnvs(remote_albums) :
            /\ e.lib = "ok" =>
                  \A x \in {"ok", "noitems", "nourl", "stream_exc", "exc"} :
                      IF variant = "bot"
                      THEN download_media_bytes(job_link, [e EXCEPT !.rawdl = x])
                              = download_media_bytes(job_link, e)
                      ELSE download_video_bytes(job_link, [e EXCEPT !.rawdl = x])
                              = download_video_bytes(job_link, e)
            /\ (e.mtype \in {1, 2, 8} /\ e.lib = "exc" /\ e.rawdl # "ok") =>
                  IF variant = "bot"
                  THEN download_media_bytes(job_link, e).ret = "fail"
                  ELSE download_video_bytes(job_link, e).ret = NoPath

\* C23: a fetch that does not hand an asset on makes the pipeline return False
\* with the transcoder, the uploader and the publish coordinator not called,
\* and the driver then writes "No" in the job's row.
C23_FetchFailureMarkedNo ==
    [][/\ (pc \in {"download", "download_bytes"}
           /\ pc' \notin {"download", "download_bytes", "analyze", "reencode"}) =>
              /\ pc' = "update"
              /\ exit' = "false"
              /\ ~success'
              /\ calls' \cap {"reencode_video", "upload_to_tmpfiles", "publish_to_instagram"} = {}
       /\ (pc = "update" /\ exit = "false" /\ pc' # pc) =>
              StatusCell(variant, sheet'[i + 1]) = "No"]_vars

\* C24: with a single asset (not an album), publish_to_instagram is called
\* after upload_to_tmpfiles only with the URL the upload returned; when the
\* upload returned none, publish_to_instagram is not called in that run, the
\* pipeline returns False, and the driver writes "No" in the job's row.
C24_NoUrlNoPublish ==
    /\ []((variant = "video" \/ media_type \in {"IMAGE", "VIDEO"}) =>
            /\ {"upload_to_tmpfiles", "publish_to_instagram"} \subseteq calls =>
                  (Len(pub_media) = 1 /\ pub_media[1].url # NoUrl)
            /\ ("upload_to_tmpfiles" \in calls /\ "publish_to_instagram" \notin calls) =>
                  /\ ~success
                  /\ nCommit = 0
                  /\ pc \in {"cleanup", "update"}
                  /\ pc = "update" => exit = "false")
    /\ [][(/\ pc = "update"
           /\ "upload_to_tmpfiles" \in calls
           /\ "publish_to_instagram" \notin calls
           /\ pc' # pc) => StatusCell(variant, sheet'[i + 1]) = "No"]_vars

C24_Witness ==
    /\ pc = "update"
    /\ exit = "false"
    /\ variant = "video" \/ media_type \in {"IMAGE", "VIDEO"}
    /\ "upload_to_tmpfiles" \in calls
    /\ "publish_to_instagram" \notin calls

\* C25: reencode_video hands back the path it was given and the run goes on
\* to upload_to_tmpfiles with it, whatever the encode tool did; when the tool
\* is missing or exits non-zero, the file at that path stays where it is and
\* no file other than the tool's own output path is touched.
C25_EncodeFailureIsSoft ==
    /\ [](pc = "reencode" =>
            \A o \in FfmpegOutcomes(CurItem.p, fs) \cap ToolFailures :
                /\ (CurItem.p \in reencode_files(CurItem.p, fs, o)) <=> (CurItem.p \in fs)
                /\ reencode_files(CurItem.p, fs, o) \ {output_path(CurItem.p)}
                      = fs \ {output_path(CurItem.p)})
    /\ [][(pc = "reencode" /\ pc' # pc) =>
              /\ pc' = "upload"
              /\ CurItem' = CurItem
              /\ variant = "video" => processed_video' = video_path
              /\ success' = success
              /\ exit' = exit]_vars

C25_Witness ==
    /\ "reencode_video" \in calls
    /\ "publish_to_instagram" \in calls
    /\ CurItem.p \in fs
    /\ CurItem.p # output_path(CurItem.p)
    /\ output_path(CurItem.p) \in fs

\* C26: after reencode_video has run, a file that was at the input path is
\* still at the input path, with the old or the new contents, also when the
\* second step of the replacement (os.rename) fails.
C26_InputPathNeverEmpty ==
    [][(pc = "reencode" /\ CurItem.p \in fs) => CurItem.p \in fs']_vars

\* C27: Video_bot.py upload_to_tmpfiles, for a file that is there and every
\* answer of the upload and of the verification: an upload answered with a
\* non-success HTTP status or a status field other than success returns no URL
\* and sends no verification request; after a successful upload it returns the
\* direct-download URL when HEAD answers 200, when HEAD is rejected and GET
\* answers 200, and when HEAD or GET raises, and no URL when GET completes
\* with another status. The pipeline publishes the URL it returned.
C27_UploadVerification ==
    /\ []((variant = "video" /\ pc = "upload" /\ processed_video \in fs) =>
            \A e \in UploadEnvs :
               LET r == video_upload_to_tmpfiles(processed_video, fs, e)
                   dl == TmpUrl(processed_video)
               IN
               /\ ~r.raised
               /\ e.post \in {"http_err", "status_fail"} => (r.url = NoUrl /\ r.checks = <<>>)
               /\ e.post = "success" =>
                     /\ e.head = 200 => (r.url = dl /\ r.checks = <<"HEAD">>)
                     /\ e.head = 0 => r.url = dl
                     /\ (e.head \notin {200, 0} /\ e.get = 200) =>
                           (r.url = dl /\ r.checks = <<"HEAD", "GET">>)
                     /\ (e.head \notin {200, 0} /\ e.get = 0) => r.url = dl
                     /\ (e.head \notin {200, 0} /\ e.get \notin {200, 0}) => r.url = NoUrl)
    /\ [][(variant = "video" /\ pc = "upload" /\ pc' = "pub_check") =>
              pub_media' = <<[url |-> TmpUrl(processed_video), t |-> "VIDEO"]>>]_vars

C27_Witness ==
    /\ variant = "video"
    /\ pc = "pub_check"
    /\ "upload_to_tmpfiles" \in calls
    /\ pub_media[1].url = TmpUrl(processed_video)
    /\ pub_media[1].url.k = "tmpfiles"

\* C28 as stated: a HEAD answer of 200, 206, 301, 302, 307 or 308 makes
\* test_url_for_instagram accept the URL, and a GET is sent only after a HEAD
\* answer outside that list.
C28_HeadAnswerDecides ==
    [][(pc = "probe" /\ pc' # pc) =>
          /\ probe_seen'.head \in HeadAccepted => use_original_url'
          /\ probe_seen'.get # 0 => probe_seen'.head \notin HeadAccepted]_vars

\* C28, amended: test_url_for_instagram accepts the URL exactly when HEAD
\* answers 200, 206, 301, 302, 307 or 308 and the GET that follows answers 200
\* or 206; the GET is sent only after such a HEAD answer; any other answer, or
\* a request that raises, rejects the URL. The pipeline publishes the source
\* link exactly when the probe accepted it.
C28_HeadThenGetDecide ==
    /\ [](pc = "probe" =>
            \A h \in HeadAnswers, g \in GetAnswers, ct \in ContentTypes :
                test_url_for_instagram(h, g, ct) <=> (h \in HeadAccepted /\ g \in {200, 206}))
    /\ [][(pc = "probe" /\ pc' # pc) =>
              /\ use_original_url' <=>
                    (probe_seen'.head \in HeadAccepted /\ probe_seen'.get \in {200, 206})
              /\ probe_seen'.get # 0 => probe_seen'.head \in HeadAccepted
              /\ (pc' = "pub_check") <=> use_original_url']_vars

C28_Witness ==
    /\ pc = "download"
    /\ probe_seen.head = 200
    /\ probe_seen.get = 404
    /\ ~use_original_url

\* C29: the result of test_url_for_instagram is the same for every
\* Content-Type, given the HEAD and GET answers; a probe whose GET answered 200
\* or 206 accepts the URL whatever Content-Type it saw.
C29_ContentTypeIgnored ==
    /\ [](pc = "probe" =>
            \A h \in HeadAnswers, g \in GetAnswers, c1 \in ContentTypes, c2 \in ContentTypes :
                test_url_for_instagram(h, g, c1) = test_url_for_instagram(h, g, c2))
    /\ [][(pc = "probe" /\ pc' # pc /\ probe_seen'.ctype # "none") => use_original_url']_vars

C29_Witness ==
    /\ pc = "pub_check"
    /\ use_original_url
    /\ probe_seen.ctype = "text/html"

\* C30: Video_bot.py publish_to_instagram checks the URL before any request to
\* the Graph API, also when the probe accepted that URL: it gives up exactly
\* when HEAD answers outside 200/206 and GET answers outside 200/206, and then
\* returns False with no container-creation request sent; when HEAD or GET
\* raises it goes on to the container creation.
C30_RecheckBeforeCreate ==
    /\ [](pc = "pub_check" =>
            /\ last_answer = "none"
            /\ nCommit = 0
            /\ \A h \in HeadAnswers, g \in GetAnswers :
                  /\ url_recheck(h, g) = "abort" <=>
                        (h \notin {200, 206, 0} /\ g \notin {200, 206, 0})
                  /\ (h = 0 \/ (h \notin {200, 206} /\ g = 0)) => url_recheck(h, g) = "go")
    /\ []((variant = "video" /\ pc \in {"pub_create", "pub_poll", "pub_commit"}) =>
            "publish_to_instagram" \in calls)
    /\ [][(pc = "pub_check" /\ pc' # pc) =>
              \/ pc' = "pub_create" /\ UNCHANGED <<success, last_answer>>
              \/ pc' = "cleanup" /\ ~success' /\ last_answer' = "none" /\ nCommit' = 0]_vars
    /\ [][(variant = "video" /\ pc' = "pub_create") => pc = "pub_check"]_vars

C30_Witness ==
    /\ variant = "video"
    /\ use_original_url
    /\ "publish_to_instagram" \in calls
    /\ pc = "cleanup"
    /\ ~success
    /\ last_answer = "none"

\* The place of each function in the order fetch, captioner, probe,
\* transcoder and uploader, publish.
claimed_rank(c) ==
    CASE c \in {"download_media", "download_video", "media_pk_from_url"} -> 1
      [] c \in {"download_srt_file", "generate_caption_from_srt", "analyze_media"} -> 2
      [] c = "test_url_for_instagram" -> 3
      [] c \in {"reencode_video", "upload_to_tmpfiles"} -> 4
      [] OTHER -> 5

\* The place of each function in the body of process_single_link (bot.py) and
\* of process_single_row (Video_bot.py, steps 1 to 7).
pipeline_rank(v, c) ==
    IF v = "bot"
    THEN CASE c \in {"download_media", "media_pk_from_url"} -> 1
           [] c = "analyze_media" -> 2
           [] c \in {"reencode_video", "upload_to_tmpfiles"} -> 3
           [] OTHER -> 4
    ELSE CASE c \in {"download_srt_file", "generate_caption_from_srt"} -> 1
           [] c = "test_url_for_instagram" -> 2
           [] c \in {"download_video", "media_pk_from_url"} -> 3
           [] c = "reencode_video" -> 4
           [] c = "upload_to_tmpfiles" -> 5
           [] OTHER -> 6

\* C31 as stated: a function is called in a run only when no function of a
\* later stage of the order fetch, captioner, probe, transcoder and uploader,
\* publish has been called in that run.
C31_FetchFirstOrder ==
    [][\A c \in calls' \ calls : \A d \in calls : claimed_rank(d) <= claimed_rank(c)]_vars

\* C31, amended: bot.py calls the fetch, then the captioner, then transcoder
\* and uploader, then publish, and has no probe; Video_bot.py calls the
\* captioner, then the probe, then (only when the probe rejected the link) the
\* fetch, the transcoder and the uploader, then publish. A function is called
\* only when no function later in that order has been called in the run, and
\* transcoder, uploader and captioner of bot.py never run without the fetch.
C31_StagesInCodeOrder ==
    /\ [][\A c \in calls' \ calls :
             \A d \in calls : pipeline_rank(variant, d) <= pipeline_rank(variant, c)]_vars
    /\ [](calls # {} =>
            /\ (calls \cap {"reencode_video", "upload_to_tmpfiles"} # {}) =>
                  (calls \cap {"download_media", "download_video"} # {})
            /\ "analyze_media" \in calls => "download_media" \in calls
            /\ "test_url_for_instagram" \in calls => "generate_caption_from_srt" \in calls
            /\ "download_video" \in calls => "test_url_for_instagram" \in calls
            /\ (variant = "bot" /\ "publish_to_instagram" \in calls) =>
                  "upload_to_tmpfiles" \in calls)

C31_Witness ==
    /\ variant = "video"
    /\ {"generate_caption_from_srt", "test_url_for_instagram", "download_video",
        "reencode_video", "upload_to_tmpfiles", "publish_to_instagram"} \subseteq calls

\* C32: when the driver hands a row to the pipeline after a job that returned
\* True or False, it has slept since that job returned.
C32_PacedBetweenJobs ==
    [][(pc = "for_rows" /\ pc' \notin DriverPcs /\ exit \in {"true", "false"}) =>
          wait # "none"]_vars

\* C33: a step of the driver at the top of its loop either opens the queue or,
\* when the connection or the opening failed, sleeps the 60 s backoff and is at
\* the top of the loop again; the failure hands no job to the pipeline, writes
\* nothing to the sheet and changes nothing else, and the loop is never left.
C33_OpenFailureBacksOff ==
    /\ [][pc = "main_loop" =>
             /\ pc' \in {"main_loop", "for_rows"}
             /\ sheet' = sheet
             /\ calls' = calls
             /\ pc' = "main_loop" =>
                   /\ wait' = "backoff"
                   /\ UNCHANGED <<rows, i, found_job, jobVars, pubVars, fs, fetched_by, histVars, exit>>]_vars
    /\ [](pc \in DriverPcs \/ InPipeline)
    /\ [](pc \in {"main_loop", "for_rows", "update", "except", "srt", "caption", "probe",
                   "download", "download_bytes", "analyze", "reencode", "upload", "cleanup"}
             \cup PublishPcs)

C33_Witness ==
    /\ pc = "for_rows"
    /\ wait = "backoff"
    /\ exit = "none"
    /\ crashes = 0

\* C34: no local path is used for the fetched file of two jobs with
\* different source links: a fetched file that is on the disk was saved for
\* one link only, so no job writes over, or removes, the file another job left.
C34_FetchedNamesDistinct ==
    \A f, g \in fetched_by : f[1] = g[1] => f[2] = g[2]

\* C35: a status cell becomes "Yes" only in the step that records the
\* outcome of the job just run, for that job's row, and only when that run
\* issued the commit request and its answer carried a post id; after a run
\* without a commit, or whose commit did not return an id, the cell written
\* is not "Yes".
C35_YesOnlyAfterPostId ==
    [][/\ \A r \in 1..Len(sheet) :
             (StatusCell(variant, sheet'[r]) = "Yes" /\ sheet'[r] # sheet[r]) =>
                 /\ pc = "update"
                 /\ r = i + 1
                 /\ "publish_to_instagram" \in calls
                 /\ nCommit = 1
                 /\ HasId(last_answer)
       /\ (pc = "update" /\ ~(nCommit = 1 /\ HasId(last_answer))) =>
             StatusCell(variant, sheet'[i + 1]) = "No"]_vars
\* The second job of a pass returned True and its row has been marked "Yes".
C35_Witness ==
    /\ pc = "for_rows"
    /\ i = 3
    /\ exit = "true"
    /\ StatusCell(variant, rows[3]) # "Yes"
    /\ StatusCell(variant, sheet[3]) = "Yes"

\* C36: bot.py download_media hands on a path, or a list of items, only for
\* files this call wrote, and a call that wrote no file returns the failure
\* triple (None, None, None).
C36_SuccessMeansFileWritten ==
    /\ (variant = "bot" /\ pc = "analyze") =>
          \A k \in 1..Len(media_data) : media_data[k].p \in created
    /\ (variant = "bot" /\ pc = "download_bytes") =>
          \A e \in ByteEnvs(remote_albums) :
              LET r == download_media_bytes(job_link, e) IN
              /\ (r.ret = "triple" /\ r.data # <<>>) =>
                    \A k \in 1..Len(r.data) : r.data[k].p \in r.written
              /\ ((e.lib = "exc" /\ e.rawdl \in {"noitems", "nourl", "exc"}) \/ r.written = {}) =>
                    r.ret = "fail"

\* C37: in the album loop of process_single_link each upload either appends
\* the item just staged, with its kind, or leaves the list as it is; the list
\* holds staged items of the album in album order; after the last item the
\* list is handed to publish_to_instagram if it is not empty, and otherwise
\* the run goes to the cleanup with False and publish is not called.
C37_AlbumKeepsStagedItems ==
    /\ [](variant = "bot" /\ media_type = "ALBUM" /\ pc \in {"reencode", "upload"} =>
            /\ \A j \in 1..Len(album_urls) :
                  \E k \in 1..(idx - 1) :
                      album_urls[j] = [url |-> TmpUrl(media_data[k].p), t |-> media_data[k].t]
            /\ \A j, h \in 1..Len(album_urls) :
                  j < h => album_urls[j].url.path.idx < album_urls[h].url.path.idx)
    /\ [][(variant = "bot" /\ media_type = "ALBUM" /\ pc = "upload") =>
             /\ album_urls' \in {album_urls,
                                 Append(album_urls, [url |-> TmpUrl(CurItem.p), t |-> CurItem.t])}
             /\ Len(album_urls') > Len(album_urls) => CurItem.p \in fs
             /\ idx < Len(media_data) =>
                   /\ idx' = idx + 1
                   /\ pc' \in {"reencode", "upload"}
                   /\ "publish_to_instagram" \notin calls'
             /\ idx = Len(media_data) =>
                   IF Len(album_urls') > 0
                   THEN /\ pc' = "pub_child"
                        /\ pub_media' = album_urls'
                        /\ pub_type' = "ALBUM"
                   ELSE /\ pc' = "cleanup"
                        /\ success' = FALSE
                        /\ "publish_to_instagram" \notin calls']_vars
\* The first item of a two-item album was not staged, the second was, and
\* the publish has the second alone.
C37_Witness ==
    /\ variant = "bot"
    /\ pc = "pub_child"
    /\ Len(media_data) = 2
    /\ pub_media = <<[url |-> TmpUrl(media_data[2].p), t |-> media_data[2].t]>>

\* C38: in the poll loop of Video_bot.py a status answer with a non-success
\* HTTP status uses up one turn of the budget and is followed by the wait: the
\* loop goes on when turns are left and ends in the timeout's False on the
\* last one; a status answer with an error payload makes the publish return
\* False in that step with no wait and no commit; the status requests of one
\* publish never number more than max_retries.
C38_HttpErrorRetriedPayloadAborts ==
    /\ [][(variant = "video" /\ pc = "pub_poll") =>
             /\ last_answer' = "http_err" =>
                   /\ slept'
                   /\ nCommit' = 0
                   /\ IF attempt + 1 < max_retries
                      THEN /\ pc' = "pub_poll"
                           /\ attempt' = attempt + 1
                           /\ nStatus' = nStatus + 1
                      ELSE /\ pc' = "cleanup"
                           /\ success' = FALSE
             /\ last_answer' = "err_payload" =>
                   /\ pc' = "cleanup"
                   /\ success' = FALSE
                   /\ ~slept'
                   /\ nCommit' = 0]_vars
    /\ [](nStatus <= max_retries /\ attempt <= max_retries)
    /\ [](pc = "pub_poll" => (attempt < max_retries /\ nStatus = attempt))
\* Two status requests were answered, the last with a non-success HTTP
\* status, and the loop is at its third turn.
C38_Witness ==
    /\ variant = "video"
    /\ pc = "pub_poll"
    /\ last_answer = "http_err"
    /\ attempt = 2
    /\ nStatus = 2
    /\ slept

\* C39: every status request is sent right after a wait, the one that
\* follows the creation of the container or the one that ends the turn before;
\* the turn answered FINISHED ends without a wait, and the commit request is
\* the next thing sent.
C39_WaitsFrameThePolls ==
    /\ [](pc = "pub_poll" => slept)
    /\ []((pc = "pub_commit" /\ last_answer = "FINISHED") => ~slept)
    /\ [][/\ (pc = "pub_create" /\ pc' = "pub_poll") => (slept' /\ nStatus' = 0)
          /\ (pc = "pub_poll" /\ pc' = "pub_poll") => (slept' /\ nStatus' = nStatus + 1)
          /\ (pc = "pub_poll" /\ last_answer' = "FINISHED") =>
                (pc' = "pub_commit" /\ ~slept')]_vars
\* The third status request answered FINISHED and the commit is next, with
\* no wait since that answer.
C39_Witness ==
    /\ pc = "pub_commit"
    /\ last_answer = "FINISHED"
    /\ nStatus = 3
    /\ ~slept

\* C40: a row the driver passes over (the header, a row with too few cells,
\* with no source link, with no SRT link in Video_bot.py, or with a status
\* that marks it handled) is never the row a pipeline run is for, and no step
\* of any pass changes it on the sheet; passing it over moves the driver to
\* the next row and does nothing else.
C40_SkippedRowUntouched ==
    /\ []((InPipeline \/ pc = "update") => ~skip_tests(variant, i + 1, rows[i + 1]))
    /\ [][/\ \A r \in 1..Len(sheet) :
                skip_tests(variant, r, sheet[r]) => sheet'[r] = sheet[r]
          /\ (pc = "for_rows" /\ i < Len(rows) /\ skip_tests(variant, i + 1, rows[i + 1])) =>
                /\ pc' = "for_rows"
                /\ i' = i + 1
                /\ UNCHANGED <<sheet, rows, calls, jobVars, pubVars, fs, wait>>]_vars
\* The row marked "Yes" was passed over and is as it was read, and the row
\* after it was run and written.
C40_Witness ==
    /\ pc = "for_rows"
    /\ i = 3
    /\ StatusCell(variant, rows[2]) = "Yes"
    /\ sheet[2] = rows[2]
    /\ sheet[3] # rows[3]

====
